---- MODULE Spec2Model ----
(***************************************************************************)
(* magnum-sceneconverter: main() of                                        *)
(* src/src/Magnum/SceneTools/sceneconverter.cpp: the import and mesh       *)
(* processing stages (lines 328-486) and the converter chain (488-547).    *)
(*                                                                         *)
(* The mesh produced by the import / transformation stages is piped through*)
(* the --converter plugins in the order given, followed by the implicit    *)
(* AnySceneConverter.  Converter plugins are external: what a plugin       *)
(* declares in features(), whether loadAndInstantiate() succeeds and what  *)
(* convert() / convertToFile() return are inputs of the model.             *)
(*                                                                         *)
(* CORRADE_INTERNAL_ASSERT is modelled as compiled in (Corrade's default): *)
(* a failed assertion aborts the process.                                  *)
(***************************************************************************)
EXTENDS Integers, Sequences, FiniteSets, TLC

\* ---------------------------------------------------------------- bounds
\* largest number of --converter options on the command line
MaxConverters == 2
\* mesh values are 0..MaxMesh (a mesh is identified by an abstract value)
MaxMesh == 2

\* largest importer->meshCount()
MaxMeshCount == 2
\* largest number of objects in a scene
MaxNodes == 1
\* largest vertex count (and index count) of an imported mesh
MaxVertices == 2
\* largest number of attributes of an imported mesh
MaxAttributes == 3
\* largest number of IDs listed in --only-attributes
MaxOnly == 2
\* largest number of objects in a scene given to the flattening alone
MaxHierarchy == 3

\* ------------------------------------------------------------- constants
ConvertMesh == "ConvertMesh"
ConvertMeshToFile == "ConvertMeshToFile"
SceneConverterFeatures == {ConvertMesh, ConvertMeshToFile}

AnySceneConverter == "AnySceneConverter"
\* plugin names that can be passed to --converter
RequestableNames == {"X", "Y"}
PluginNames == RequestableNames \cup {AnySceneConverter}

Meshes == 0..MaxMesh
\* Containers::Optional<Trade::MeshData>: <<>> is an empty optional
OptionalMesh == {<<>>} \cup {<<m>> : m \in Meshes}
\* the mesh the import and transformation stages leave in `mesh`
StageMesh == 0

\* an empty Containers::Pointer<AbstractSceneConverter>
NoConverter == "nullptr"

\* sequences over S of length 0..n
SeqUpTo(S, n) == UNION {[1..k -> S] : k \in 0..n}

\* ------------------------------------------------------------- mesh data
\* Trade::MeshData, as far as main() and the MeshTools it calls read it:
\* the primitive, whether there is an index buffer and its indices, the
\* vertex data (one value per vertex) and the list of attributes.
Primitives == {"Triangles", "Lines", "TriangleStrip"}
\* primitives that encode adjacency implicitly (lines 428-430)
StripLoopFan == {"LineStrip", "LineLoop", "TriangleStrip", "TriangleFan"}
AttributeNames == {"Position", "Normal"}
\* transformations are translations by 0 or 10: the vertex v of the mesh
\* number v % 10 of the importer, moved by 10 or 20, stays recognizable
Translations == {0, 10}

MeshData(primitive, indexed, indices, vertices, attributes) ==
    [primitive |-> primitive, indexed |-> indexed, indices |-> indices,
     vertices |-> vertices, attributes |-> attributes]
attributeCount(m) == Len(m.attributes)

\* every mesh within the bounds with these primitives, vertex coordinates
\* and attribute lists: indices are < vertexCount, a mesh without an index
\* buffer has no indices
MeshesOf(primitives, coordinates, layouts) ==
    UNION { { MeshData(p, TRUE, ix, vs, a) :
                p \in primitives,
                ix \in SeqUpTo(0..(Len(vs) - 1), MaxVertices),
                a \in layouts }
            \cup { MeshData(p, FALSE, <<>>, vs, a) :
                     p \in primitives, a \in layouts } :
            vs \in SeqUpTo(coordinates, MaxVertices) }

\* Trade::SceneData, as far as flattenMeshHierarchy3D() reads it: per
\* object its parent (0: none, else the number of an earlier object), the
\* mesh assigned to it (-1: none) and its local transformation
SceneNodes(count, objects) ==
    [parent : 0..objects, mesh : -1..(count - 1), translation : Translations]
ScenesOf(count, objects) ==
    { sc \in SeqUpTo(SceneNodes(count, objects), objects) :
        \A n \in 1..Len(sc) : sc[n].parent < n }
Scenes(count) == ScenesOf(count, MaxNodes)

\* ------------------------------------------------------- library functions
\* SceneTools::flattenMeshHierarchy3D(): depth-first from the root objects,
\* a transformation being the parent's one combined with the local one; an
\* object without a mesh gives no entry.  An entry is a Containers::Triple.
ChildrenOf(sc, p) ==
    SelectSeq([n \in 1..Len(sc) |-> n], LAMBDA n : sc[n].parent = p)
RECURSIVE FlattenFrom(_, _, _)
FlattenFrom(sc, stack, world) ==
    IF stack = <<>> THEN <<>>
    ELSE LET n == Head(stack)
             w == (IF sc[n].parent = 0 THEN 0 ELSE world[sc[n].parent])
                  + sc[n].translation
             entry == IF sc[n].mesh = -1 THEN <<>>
                      ELSE <<[first |-> sc[n].mesh, second |-> n - 1,
                              third |-> w]>>
         IN entry \o FlattenFrom(sc, ChildrenOf(sc, n) \o Tail(stack),
                                 [world EXCEPT ![n] = w])
RECURSIVE FlattenInObjectOrder(_, _, _)
FlattenInObjectOrder(sc, n, world) ==
    IF n > Len(sc) THEN <<>>
    ELSE LET w == (IF sc[n].parent = 0 THEN 0 ELSE world[sc[n].parent])
                  + sc[n].translation
             entry == IF sc[n].mesh = -1 THEN <<>>
                      ELSE <<[first |-> sc[n].mesh, second |-> n - 1,
                              third |-> w]>>
         IN entry \o FlattenInObjectOrder(sc, n + 1, [world EXCEPT ![n] = w])
flattenMeshHierarchy3DInObjectOrder(sc) ==
    FlattenInObjectOrder(sc, 1, [n \in 1..Len(sc) |-> 0])
flattenMeshHierarchy3D(sc) ==
    FlattenFrom(sc, ChildrenOf(sc, 0), [n \in 1..Len(sc) |-> 0])

\* MeshTools::transform3D(): the transformation applied to every position
transform3D(m, t) ==
    [m EXCEPT !.vertices = [k \in 1..Len(m.vertices) |-> m.vertices[k] + t]]

\* MeshTools::concatenate() expects at least one mesh, all of the same
\* primitive, none a strip, loop or fan (lines 428-430: it asserts)
canConcatenateAnything(ms) == ms # <<>>
canConcatenate(ms) ==
    /\ ms # <<>>
    /\ \A k \in 1..Len(ms) : ms[k].primitive = ms[1].primitive
    /\ ms[1].primitive \notin StripLoopFan
\* the indices of a mesh, those of a mesh without index buffer being
\* 0 .. vertexCount - 1
indicesOrImplicit(m) ==
    IF m.indexed THEN m.indices ELSE [k \in 1..Len(m.vertices) |-> k - 1]
RECURSIVE concatenatedVertices(_)
concatenatedVertices(ms) ==
    IF ms = <<>> THEN <<>>
    ELSE Head(ms).vertices \o concatenatedVertices(Tail(ms))
RECURSIVE concatenatedIndicesNoOffset(_, _)
concatenatedIndicesNoOffset(ms, offset) ==
    IF ms = <<>> THEN <<>>
    ELSE indicesOrImplicit(Head(ms))
         \o concatenatedIndicesNoOffset(Tail(ms), offset)
RECURSIVE concatenatedIndices(_, _)
concatenatedIndices(ms, offset) ==
    IF ms = <<>> THEN <<>>
    ELSE LET ix == indicesOrImplicit(Head(ms))
         IN [k \in 1..Len(ix) |-> ix[k] + offset]
            \o concatenatedIndices(Tail(ms),
                                   offset + Len(Head(ms).vertices))
\* lines 206-208: only the attributes of the first mesh are taken
concatenatedAttributesOfLast(ms) == ms[Len(ms)].attributes
concatenatedAttributes(ms) == ms[1].attributes
concatenate(ms) ==
    LET anyIndexed == \E k \in 1..Len(ms) : ms[k].indexed
    IN MeshData(ms[1].primitive, anyIndexed,
                IF anyIndexed THEN concatenatedIndices(ms, 0) ELSE <<>>,
                concatenatedVertices(ms),
                concatenatedAttributes(ms))

\* MeshTools::removeDuplicates() / removeDuplicatesFuzzy(): going through
\* the vertices in order, a vertex within epsilon of a vertex kept before is
\* collapsed to the first such one; the index buffer refers to the kept ones
Distance(a, b) == IF a >= b THEN a - b ELSE b - a
RECURSIVE DuplicatesRemoved(_, _, _, _)
DuplicatesRemoved(vs, kept, remap, epsilon) ==
    IF vs = <<>> THEN [kept |-> kept, remap |-> remap]
    ELSE LET v == Head(vs)
             same == {j \in 1..Len(kept) : Distance(kept[j], v) <= epsilon}
         IN IF same = {}
            THEN DuplicatesRemoved(Tail(vs), Append(kept, v),
                                   Append(remap, Len(kept)), epsilon)
            ELSE DuplicatesRemoved(Tail(vs), kept,
                    Append(remap, (CHOOSE j \in same :
                                     \A o \in same : j <= o) - 1),
                    epsilon)
removeDuplicatesFuzzy(m, epsilon) ==
    LET r == DuplicatesRemoved(m.vertices, <<>>, <<>>, epsilon)
        ix == indicesOrImplicit(m)
    IN MeshData(m.primitive, TRUE,
                [k \in 1..Len(ix) |-> r.remap[ix[k] + 1]],
                r.kept, m.attributes)
removeDuplicates(m) == removeDuplicatesFuzzy(m, 0)

\* Utility::String::parseNumberSequence(string, min, max), for a string
\* that lists plain numbers: a number outside of [min, max) is left out of
\* the output; a string with another character gives NullOpt (<<>>).
\* An --only-attributes value is "empty", "garbage" or "numbers" with ids.
\* NotRead stands for the value before main() reads the option.
\* The values tried list up to MaxOnly IDs below MaxAttributes, so that
\* a mesh with fewer attributes than MaxAttributes meets IDs it does not have.
NotRead == [kind |-> "not read", ids |-> <<>>]
OnlyAttributesValues ==
    {[kind |-> "empty", ids |-> <<>>], [kind |-> "garbage", ids |-> <<>>]}
    \cup {[kind |-> "numbers", ids |-> ids] :
            ids \in SeqUpTo(0..(MaxAttributes - 1), MaxOnly) \ {<<>>}}
parseNumberSequenceSorted(value, min, max) ==
    IF value.kind = "garbage" THEN <<>>
    ELSE <<SelectSeq([k \in 1..(max - min) |-> min + k - 1],
                     LAMBDA n : \E j \in 1..Len(value.ids) : value.ids[j] = n)>>
parseNumberSequence(value, min, max) ==
    IF value.kind = "garbage" THEN <<>>
    ELSE <<SelectSeq(value.ids, LAMBDA n : n >= min /\ n < max)>>

\* lines 452-462: the mesh with only the attributes listed in `only`
filterAttributesDroppingIndices(m, only) ==
    MeshData(m.primitive, FALSE, <<>>, m.vertices,
             [k \in 1..Len(only) |-> m.attributes[only[k] + 1]])
filterAttributes(m, only) ==
    MeshData(m.primitive, m.indexed, m.indices, m.vertices,
             [k \in 1..Len(only) |-> m.attributes[only[k] + 1]])

\* the Containers::Array of the index data, the one of the vertex data and
\* the ones of a mesh a callee returned: held by nothing (there is none), by
\* the variable `mesh` of main() or by a temporary of the statement executed
NoStorage == [indexData |-> {}, vertexData |-> {}, result |-> {}]
MeshOwns == [indexData |-> {"mesh"}, vertexData |-> {"mesh"}, result |-> {}]

VARIABLES
    converters,  \* args.arrayValue("converter", *), in command-line order
    features,    \* features() declared by the plugin of each name
    mesh,        \* Containers::Optional<Trade::MeshData> mesh
    i,           \* the loop variable
    converter,   \* the plugin instantiated in the current iteration
    pc,          \* "load", "dispatch", "done" (main returned), "aborted"
    exitCode,    \* the value main returned, when pc = "done"
    calls,       \* every call made on the plugin manager and the plugins
    argInfo,     \* isInfoRequested(args)
    argOutput,   \* the output argument is not empty
    argConcatenate,            \* args.isSet("concatenate-meshes")
    argRemoveDuplicates,       \* args.isSet("remove-duplicates")
    argRemoveDuplicatesFuzzy,  \* --remove-duplicates-fuzzy is not empty
    argOnlyAttributes,         \* args.value("only-attributes"), from the
                               \* line that reads it (446) on
    argProfile,                \* args.isSet("profile")
    meshCount,   \* importer->meshCount()
    meshes,      \* the array `meshes` of the concatenation branch
    warned,      \* the "Ignoring output file" warning was printed
    stages,      \* every importer call and mesh processing step made
    profiled,    \* the "Import took ..." lines printed
    accesses,    \* what main() did with `mesh`, when lines 445-541 are run
                 \* statement by statement (OwnershipSpec)
    owners       \* who holds the index and vertex storage of `mesh` and the
                 \* storage of a mesh returned but not assigned yet, then

\* the state of the stages before the converter chain
stageVars == <<argInfo, argOutput, argConcatenate, argRemoveDuplicates,
               argRemoveDuplicatesFuzzy, argOnlyAttributes, argProfile,
               meshCount, meshes, warned, stages>>

vars == <<converters, features, mesh, i, converter, pc, exitCode, calls,
          stageVars, profiled, accesses, owners>>

converterCount == Len(converters)

\* one call on the plugin manager or on a plugin
Call(op, hop, name, input, ok, output) ==
    [op |-> op, hop |-> hop, name |-> name, input |-> input, ok |-> ok,
     output |-> output]

\* ---------------------------------------------------------------- helpers
\* line 495: the name of the plugin of iteration k
converterNameReversed(k) ==
    IF k = converterCount THEN AnySceneConverter
    ELSE converters[converterCount - k]
converterName(k) ==
    IF k = converterCount THEN AnySceneConverter ELSE converters[k + 1]

\* line 510, first operand: the last --converter or the implicit one
isLastOnlyImplicit(k) == k >= converterCount
isLastAlways(k) == TRUE
isLast(k) == k + 1 >= converterCount

\* line 510, second operand
canConvertToFileUnlessInMemory(name) ==
    ConvertMeshToFile \in features[name] /\ ConvertMesh \notin features[name]
canConvertToFile(name) == ConvertMeshToFile \in features[name]

\* line 530
canConvert(name) == ConvertMesh \in features[name]

\* line 510: the iteration saves the file
savesToFile(k, name) == isLast(k) /\ canConvertToFile(name)

\* line 536: the assignment mesh = converter->convert(*mesh)
convertedMeshDropped(old, out) == IF out = <<>> THEN out ELSE old
convertedMesh(old, out) == out

\* ------------------------------------------------------------------- Init
Init ==
    /\ converters \in SeqUpTo(RequestableNames, MaxConverters)
    /\ features \in [PluginNames -> SUBSET SceneConverterFeatures]
    /\ mesh = <<StageMesh>>
    /\ i = 0
    /\ converter = NoConverter
    /\ pc = "load"
    /\ exitCode = 0
    /\ calls = <<>>
    /\ argInfo = FALSE
    /\ argOutput = TRUE
    /\ argConcatenate = FALSE
    /\ argRemoveDuplicates = FALSE
    /\ argRemoveDuplicatesFuzzy = FALSE
    /\ argOnlyAttributes = NotRead
    /\ argProfile = FALSE
    /\ meshCount = 1
    /\ meshes = <<>>
    /\ warned = FALSE
    /\ stages = <<>>
    /\ profiled = <<>>
    /\ accesses = <<>>
    /\ owners = NoStorage

\* ---------------------------------------------------------------- actions
\* lines 493-506: loop condition, loadAndInstantiate(), null check.
\* Setting the verbose flag and the options changes nothing modelled here.
LoadConverterIgnoringFailure ==
    /\ pc = "load"
    /\ i <= converterCount
    /\ \E ok \in BOOLEAN :
        /\ calls' = Append(calls,
              Call("loadAndInstantiate", i, converterName(i), <<>>, ok, <<>>))
        /\ converter' = converterName(i)
        /\ pc' = "dispatch"
        /\ UNCHANGED exitCode
    /\ UNCHANGED <<converters, features, mesh, i>>
    /\ UNCHANGED stageVars
    /\ UNCHANGED <<profiled, accesses, owners>>

LoadConverter ==
    /\ pc = "load"
    /\ i <= converterCount
    /\ \E ok \in BOOLEAN :
        /\ calls' = Append(calls,
              Call("loadAndInstantiate", i, converterName(i), <<>>, ok, <<>>))
        /\ IF ok
           THEN /\ converter' = converterName(i)
                /\ pc' = "dispatch"
                /\ UNCHANGED exitCode
           ELSE /\ converter' = NoConverter
                /\ pc' = "done"
                /\ exitCode' = 2
    /\ UNCHANGED <<converters, features, mesh, i>>
    /\ UNCHANGED stageVars
    /\ UNCHANGED <<profiled, accesses, owners>>

\* lines 510-521: the terminal path; break leaves the loop and main returns 0
SaveToFileNoBreak ==
    /\ pc = "dispatch"
    /\ savesToFile(i, converter)
    /\ \E ok \in BOOLEAN :
        /\ calls' = Append(calls,
              Call("convertToFile", i, converter, mesh, ok, <<>>))
        /\ IF ok
           THEN /\ pc' = "load"
                /\ i' = i + 1
                /\ converter' = NoConverter
                /\ UNCHANGED exitCode
           ELSE /\ pc' = "done"
                /\ exitCode' = 5
                /\ UNCHANGED <<i, converter>>
    /\ UNCHANGED <<converters, features, mesh>>
    /\ UNCHANGED stageVars
    /\ UNCHANGED <<profiled, accesses, owners>>

\* lines 383-385, 543-546: with --profile, the times are printed
ProfileOutput(profile, text) ==
    profiled' = IF profile THEN Append(profiled, text) ELSE profiled

\* lines 510-521 and the return of line 546, --profile being `profile`: all
\* of the terminal path but the profile output
SaveToFileFor(profile) ==
    /\ pc = "dispatch"
    /\ savesToFile(i, converter)
    /\ \E ok \in BOOLEAN :
        /\ calls' = Append(calls,
              Call("convertToFile", i, converter, mesh, ok, <<>>))
        /\ pc' = "done"
        /\ exitCode' = IF ok THEN 0 ELSE 5
    /\ UNCHANGED <<converters, features, mesh, i, converter>>
    /\ UNCHANGED stageVars
    /\ UNCHANGED <<accesses, owners>>

\* lines 510-521, 543-546: the terminal path; the times are printed when the
\* file was written
SaveToFile ==
    /\ SaveToFileFor(argProfile)
    /\ ProfileOutput(argProfile /\ calls'[Len(calls')].ok,
                     "Import took, conversion")

\* line 526: CORRADE_INTERNAL_ASSERT(i < converterCount) fails
InternalAssertFails ==
    /\ pc = "dispatch"
    /\ ~savesToFile(i, converter)
    /\ ~(i < converterCount)
    /\ pc' = "aborted"
    /\ UNCHANGED <<converters, features, mesh, i, converter, exitCode, calls>>
    /\ UNCHANGED stageVars
    /\ UNCHANGED <<profiled, accesses, owners>>

\* lines 530-533: the plugin does not support mesh conversion
NoMeshConversion ==
    /\ pc = "dispatch"
    /\ ~savesToFile(i, converter)
    /\ i < converterCount
    /\ ~canConvert(converter)
    /\ pc' = "done"
    /\ exitCode' = 6
    /\ UNCHANGED <<converters, features, mesh, i, converter, calls>>
    /\ UNCHANGED stageVars
    /\ UNCHANGED <<profiled, accesses, owners>>

\* lines 535-541: convert(), then ++i; the plugin goes out of scope
ConvertRetrying ==
    /\ pc = "dispatch"
    /\ ~savesToFile(i, converter)
    /\ i < converterCount
    /\ canConvert(converter)
    /\ \E out \in OptionalMesh :
        /\ calls' = Append(calls,
              Call("convert", i, converter, mesh, out # <<>>, out))
        /\ IF out = <<>>
           THEN /\ UNCHANGED <<mesh, i, converter, pc, exitCode>>
           ELSE /\ mesh' = convertedMesh(mesh, out)
                /\ i' = i + 1
                /\ converter' = NoConverter
                /\ pc' = "load"
                /\ UNCHANGED exitCode
    /\ UNCHANGED <<converters, features>>
    /\ UNCHANGED stageVars
    /\ UNCHANGED <<profiled, accesses, owners>>

ConvertWithoutIncrement ==
    /\ pc = "dispatch"
    /\ ~savesToFile(i, converter)
    /\ i < converterCount
    /\ canConvert(converter)
    /\ \E out \in OptionalMesh :
        /\ calls' = Append(calls,
              Call("convert", i, converter, mesh, out # <<>>, out))
        /\ mesh' = convertedMesh(mesh, out)
        /\ IF out = <<>>
           THEN /\ pc' = "done"
                /\ exitCode' = 7
                /\ UNCHANGED <<i, converter>>
           ELSE /\ converter' = NoConverter
                /\ pc' = "load"
                /\ UNCHANGED <<i, exitCode>>
    /\ UNCHANGED <<converters, features>>
    /\ UNCHANGED stageVars
    /\ UNCHANGED <<profiled, accesses, owners>>

Convert ==
    /\ pc = "dispatch"
    /\ ~savesToFile(i, converter)
    /\ i < converterCount
    /\ canConvert(converter)
    /\ \E out \in OptionalMesh :
        /\ calls' = Append(calls,
              Call("convert", i, converter, mesh, out # <<>>, out))
        /\ mesh' = convertedMesh(mesh, out)
        /\ IF out = <<>>
           THEN /\ pc' = "done"
                /\ exitCode' = 7
                /\ UNCHANGED <<i, converter>>
           ELSE /\ i' = i + 1
                /\ converter' = NoConverter
                /\ pc' = "load"
                /\ UNCHANGED exitCode
    /\ UNCHANGED <<converters, features>>
    /\ UNCHANGED stageVars
    /\ UNCHANGED <<profiled, accesses, owners>>

Next ==
    \/ LoadConverter
    \/ SaveToFile
    \/ InternalAssertFails
    \/ NoMeshConversion
    \/ Convert

Spec == Init /\ [][Next]_vars

\* main() is sequential code: as long as a statement is left to execute, it
\* is executed
FairSpec == Spec /\ WF_vars(Next)

\* ------------------------------------------------- the stages before it
\* one importer call or mesh processing step
Stage(op, arg, result) == [op |-> op, arg |-> arg, result |-> result]

\* what importer->mesh(id) can return in the runs of Pipeline: nothing, or
\* a mesh without index buffer whose single vertex is `id`, of any primitive,
\* with one or two attributes
ImporterMeshes(id) ==
    { MeshData(p, FALSE, <<>>, <<id>>, a) :
        p \in Primitives,
        a \in {<<"Position">>, <<"Position", "Normal">>} }
OptionalImporterMesh(id) == {<<>>} \cup {<<m>> : m \in ImporterMeshes(id)}

\* the number of meshes[] already imported (they are imported in order)
importedCount == Cardinality({k \in 1..Len(meshes) : meshes[k] # <<>>})

\* main returns `code`
Return(code) == pc' = "done" /\ exitCode' = code

chainVars == <<converters, features, i, converter, calls>>
argVars == <<argInfo, argOutput, argConcatenate, argRemoveDuplicates,
             argRemoveDuplicatesFuzzy, argOnlyAttributes, argProfile,
             meshCount>>

\* lines 328-335: the output file is ignored with --info, with a warning
GenericChecks ==
    /\ pc = "checks"
    /\ warned' = (argOutput /\ argInfo)
    /\ pc' = "open"
    /\ UNCHANGED <<chainVars, argVars, mesh, meshes, exitCode, stages>>
    /\ UNCHANGED <<profiled, accesses, owners>>

\* lines 347-377: instantiate the importer and open the file
OpenFile ==
    /\ pc = "open"
    /\ \E outcome \in {"no plugin", "cannot open", "opened"} :
        /\ stages' = Append(stages,
              Stage("openFile", outcome, outcome = "opened"))
        /\ CASE outcome = "no plugin" -> Return(1)
             [] outcome = "cannot open" -> Return(3)
             [] outcome = "opened" -> pc' = "info" /\ UNCHANGED exitCode
    /\ UNCHANGED <<chainVars, argVars, mesh, meshes, warned>>
    /\ UNCHANGED <<profiled, accesses, owners>>

\* lines 379-388: print the file info and exit
PrintInfoAndContinue ==
    /\ pc = "info"
    /\ argInfo
    /\ \E error \in BOOLEAN :
        /\ stages' = Append(stages, Stage("printInfo", <<>>, ~error))
        /\ IF error THEN Return(1)
           ELSE pc' = "meshCount" /\ UNCHANGED exitCode
    /\ UNCHANGED <<chainVars, argVars, mesh, meshes, warned>>
    /\ UNCHANGED <<profiled, accesses, owners>>

PrintInfoIgnoringErrors(profile) ==
    /\ pc = "info"
    /\ argInfo
    /\ \E error \in BOOLEAN :
        /\ stages' = Append(stages, Stage("printInfo", <<>>, ~error))
        /\ Return(IF error /\ ~profile THEN 1 ELSE 0)
    /\ UNCHANGED <<chainVars, argVars, mesh, meshes, warned>>
    /\ UNCHANGED <<accesses, owners>>

\* lines 379-388, --profile being `profile`: all of them but the profile
\* output
PrintInfoFor(profile) ==
    /\ pc = "info"
    /\ argInfo
    /\ \E error \in BOOLEAN :
        /\ stages' = Append(stages, Stage("printInfo", <<>>, ~error))
        /\ Return(IF error THEN 1 ELSE 0)
    /\ UNCHANGED <<chainVars, argVars, mesh, meshes, warned>>
    /\ UNCHANGED <<accesses, owners>>

\* lines 379-388: --info prints and returns; the import time is printed first
PrintInfo ==
    /\ PrintInfoFor(argProfile)
    /\ ProfileOutput(argProfile, "Import took")

\* line 380 (no --info), lines 390-399: no meshes, or the branch to take
CheckMeshCount ==
    /\ pc \in {"info", "meshCount"}
    /\ pc = "info" => ~argInfo
    /\ IF meshCount = 0
       THEN Return(1) /\ UNCHANGED meshes
       ELSE /\ pc' = IF argConcatenate THEN "importMeshes" ELSE "importMesh"
            /\ meshes' = IF argConcatenate
                         THEN [k \in 1..meshCount |-> <<>>] ELSE <<>>
            /\ UNCHANGED exitCode
    /\ UNCHANGED <<chainVars, argVars, mesh, warned, stages>>
    /\ UNCHANGED <<profiled, accesses, owners>>

\* lines 400-403: meshes[i] = importer->mesh(i), for the next i
ImportMeshesIgnoringFailure ==
    /\ pc = "importMeshes"
    /\ \E imported \in OptionalImporterMesh(importedCount) :
        /\ stages' = Append(stages,
              Stage("mesh", importedCount, imported # <<>>))
        /\ meshes' = [meshes EXCEPT ![importedCount + 1] =
              IF imported = <<>>
              THEN <<MeshData("Triangles", FALSE, <<>>, <<>>, <<>>)>>
              ELSE imported]
        /\ pc' = IF importedCount + 1 = meshCount THEN "scene" ELSE pc
        /\ UNCHANGED exitCode
    /\ UNCHANGED <<chainVars, argVars, mesh, warned>>
    /\ UNCHANGED <<profiled, accesses, owners>>

ImportMeshes ==
    /\ pc = "importMeshes"
    /\ \E imported \in OptionalImporterMesh(importedCount) :
        /\ stages' = Append(stages,
              Stage("mesh", importedCount, imported # <<>>))
        /\ meshes' = [meshes EXCEPT ![importedCount + 1] = imported]
        /\ IF imported = <<>> THEN Return(1)
           ELSE /\ pc' = IF importedCount + 1 = meshCount THEN "scene" ELSE pc
                /\ UNCHANGED exitCode
    /\ UNCHANGED <<chainVars, argVars, mesh, warned>>
    /\ UNCHANGED <<profiled, accesses, owners>>

\* line 418: the meshes of the hierarchy, each with its transformation
transformedMeshes(entries) ==
    [k \in 1..Len(entries) |->
        <<transform3D(meshes[entries[k].first + 1][1], entries[k].third)>>]
\* the steps lines 417-418 make for these entries
flattenStages(entries) ==
    <<Stage("flattenMeshHierarchy3D", Len(entries), TRUE)>>
    \o [k \in 1..Len(entries) |-> Stage("transform3D", entries[k], TRUE)]

\* lines 405-420: with a default scene, import it and replace the meshes by
\* the flattened and transformed ones
FlattenMeshHierarchyAlways ==
    /\ pc = "scene"
    /\ \E defaultScene \in {-1, 0} :
       \E scene \in {<<sc>> : sc \in Scenes(meshCount)} :
          LET entries == flattenMeshHierarchy3D(scene[1])
          IN /\ stages' = stages
                     \o <<Stage("defaultScene", <<>>, defaultScene # -1),
                          Stage("scene", scene, TRUE)>>
                     \o flattenStages(entries)
             /\ meshes' = transformedMeshes(entries)
             /\ pc' = "concatenate"
             /\ UNCHANGED exitCode
    /\ UNCHANGED <<chainVars, argVars, mesh, warned>>
    /\ UNCHANGED <<profiled, accesses, owners>>

\* `scenes` is what importer->scene() can return, besides nothing
FlattenMeshHierarchyOf(scenes) ==
    /\ pc = "scene"
    /\ \E defaultScene \in {-1, 0} :
        IF defaultScene = -1
        THEN /\ stages' = Append(stages, Stage("defaultScene", <<>>, FALSE))
             /\ pc' = "concatenate"
             /\ UNCHANGED <<meshes, exitCode>>
        ELSE \E scene \in {<<>>} \cup {<<sc>> : sc \in scenes} :
            IF scene = <<>>
            THEN /\ stages' = stages
                        \o <<Stage("defaultScene", <<>>, TRUE),
                             Stage("scene", scene, FALSE)>>
                 /\ Return(1)
                 /\ UNCHANGED meshes
            ELSE LET entries == flattenMeshHierarchy3D(scene[1])
                 IN /\ stages' = stages
                        \o <<Stage("defaultScene", <<>>, TRUE),
                             Stage("scene", scene, TRUE)>>
                        \o flattenStages(entries)
                    /\ meshes' = transformedMeshes(entries)
                    /\ pc' = "concatenate"
                    /\ UNCHANGED exitCode
    /\ UNCHANGED <<chainVars, argVars, mesh, warned>>
    /\ UNCHANGED <<profiled, accesses, owners>>

FlattenMeshHierarchy == FlattenMeshHierarchyOf(Scenes(meshCount))

\* lines 422-433: concatenate the meshes; the array goes out of scope
meshReferences == [k \in 1..Len(meshes) |-> meshes[k][1]]
Concatenate ==
    /\ pc = "concatenate"
    /\ IF canConcatenate(meshReferences)
       THEN /\ mesh' = <<concatenate(meshReferences)>>
            /\ stages' = Append(stages,
                  Stage("concatenate", Len(meshes), TRUE))
            /\ meshes' = <<>>
            /\ pc' = "filter"
       ELSE /\ stages' = Append(stages,
                  Stage("concatenate", Len(meshes), FALSE))
            /\ pc' = "aborted"
            /\ UNCHANGED <<mesh, meshes>>
    /\ UNCHANGED <<chainVars, argVars, exitCode, warned>>
    /\ UNCHANGED <<profiled, accesses, owners>>

\* lines 434-440: import the mesh --mesh names
ImportMesh ==
    /\ pc = "importMesh"
    /\ \E id \in 0..(meshCount - 1) :
       \E imported \in OptionalImporterMesh(id) :
        /\ stages' = Append(stages, Stage("mesh", id, imported # <<>>))
        /\ mesh' = imported
        /\ IF imported = <<>> THEN Return(4)
           ELSE pc' = "filter" /\ UNCHANGED exitCode
    /\ UNCHANGED <<chainVars, argVars, meshes, warned>>
    /\ UNCHANGED <<profiled, accesses, owners>>

\* lines 445-463: filter the attributes, if --only-attributes is given
FilterAttributes ==
    /\ pc = "filter"
    /\ \E value \in OnlyAttributesValues :
        /\ argOnlyAttributes' = value
        /\ IF value.kind = "empty"
           THEN /\ pc' = "removeDuplicates"
                /\ UNCHANGED <<mesh, exitCode, stages>>
           ELSE LET only == parseNumberSequence(value, 0,
                                                attributeCount(mesh[1]))
                IN IF only = <<>>
                   THEN /\ Return(2)
                        /\ stages' = Append(stages,
                              Stage("filter", value, FALSE))
                        /\ UNCHANGED mesh
                   ELSE /\ mesh' = <<filterAttributes(mesh[1], only[1])>>
                        /\ stages' = Append(stages,
                              Stage("filter", value, TRUE))
                        /\ pc' = "removeDuplicates"
                        /\ UNCHANGED exitCode
    /\ UNCHANGED <<argInfo, argOutput, argConcatenate, argRemoveDuplicates,
                   argRemoveDuplicatesFuzzy, argProfile, meshCount>>
    /\ UNCHANGED <<chainVars, meshes, warned>>
    /\ UNCHANGED <<profiled, accesses, owners>>

\* lines 465-474: remove duplicates, if requested
RemoveDuplicatesSkipped ==
    /\ pc = "removeDuplicates"
    /\ pc' = "removeDuplicatesFuzzy"
    /\ UNCHANGED <<chainVars, argVars, mesh, meshes, exitCode, warned, stages>>
    /\ UNCHANGED <<profiled, accesses, owners>>

RemoveDuplicates ==
    /\ pc = "removeDuplicates"
    /\ IF argRemoveDuplicates
       THEN /\ mesh' = <<removeDuplicates(mesh[1])>>
            /\ stages' = Append(stages,
                  Stage("removeDuplicates", <<>>, TRUE))
       ELSE UNCHANGED <<mesh, stages>>
    /\ pc' = "removeDuplicatesFuzzy"
    /\ UNCHANGED <<chainVars, argVars, meshes, exitCode, warned>>
    /\ UNCHANGED <<profiled, accesses, owners>>

\* lines 476-486: remove duplicates with fuzzy comparison, if requested;
\* then the converter chain begins
RemoveDuplicatesFuzzy ==
    /\ pc = "removeDuplicatesFuzzy"
    /\ IF argRemoveDuplicatesFuzzy
       THEN \E epsilon \in {0, 1} :
            /\ mesh' = <<removeDuplicatesFuzzy(mesh[1], epsilon)>>
            /\ stages' = Append(stages,
                  Stage("removeDuplicatesFuzzy", epsilon, TRUE))
       ELSE UNCHANGED <<mesh, stages>>
    /\ pc' = "load"
    /\ UNCHANGED <<chainVars, argVars, meshes, exitCode, warned>>
    /\ UNCHANGED <<profiled, accesses, owners>>

\* main() from its generic checks on, without --profile and --converter and with
\* converter plugins that all declare ConvertMeshToFile (the chain under
\* other command lines and plugins is what Spec describes)
PipelineInit ==
    /\ converters = <<>>
    /\ features = [n \in PluginNames |-> {ConvertMeshToFile}]
    /\ mesh = <<>>
    /\ i = 0
    /\ converter = NoConverter
    /\ pc = "checks"
    /\ exitCode = 0
    /\ calls = <<>>
    /\ argInfo \in BOOLEAN
    /\ argOutput \in BOOLEAN
    /\ argInfo \/ argOutput
    /\ argConcatenate \in BOOLEAN
    /\ argRemoveDuplicates \in BOOLEAN
    /\ argRemoveDuplicatesFuzzy \in BOOLEAN
    /\ argOnlyAttributes = NotRead
    /\ argProfile = FALSE
    /\ meshCount \in 0..MaxMeshCount
    /\ meshes = <<>>
    /\ warned = FALSE
    /\ stages = <<>>
    /\ profiled = <<>>
    /\ accesses = <<>>
    /\ owners = NoStorage

PipelineNext ==
    \/ GenericChecks
    \/ OpenFile
    \/ PrintInfo
    \/ CheckMeshCount
    \/ ImportMeshes
    \/ FlattenMeshHierarchy
    \/ Concatenate
    \/ ImportMesh
    \/ FilterAttributes
    \/ RemoveDuplicates
    \/ RemoveDuplicatesFuzzy
    \/ LoadConverter
    \/ SaveToFile

Pipeline == PipelineInit /\ [][PipelineNext]_vars

\* ------------------------------------------------ with and without --profile
\* main() in single-mesh mode, with and without --profile
ProfileInit ==
    /\ converters = <<>>
    /\ features = [n \in PluginNames |-> {ConvertMeshToFile}]
    /\ mesh = <<>>
    /\ i = 0
    /\ converter = NoConverter
    /\ pc = "checks"
    /\ exitCode = 0
    /\ calls = <<>>
    /\ argInfo \in BOOLEAN
    /\ argOutput \in BOOLEAN
    /\ argInfo \/ argOutput
    /\ argConcatenate = FALSE
    /\ argRemoveDuplicates \in BOOLEAN
    /\ argRemoveDuplicatesFuzzy \in BOOLEAN
    /\ argOnlyAttributes = NotRead
    /\ argProfile \in BOOLEAN
    /\ meshCount \in 0..MaxMeshCount
    /\ meshes = <<>>
    /\ warned = FALSE
    /\ stages = <<>>
    /\ profiled = <<>>
    /\ accesses = <<>>
    /\ owners = NoStorage

ProfileNext ==
    \/ GenericChecks
    \/ OpenFile
    \/ PrintInfo
    \/ CheckMeshCount
    \/ ImportMesh
    \/ FilterAttributes
    \/ RemoveDuplicates
    \/ RemoveDuplicatesFuzzy
    \/ LoadConverter
    \/ SaveToFile

ProfileSpec == ProfileInit /\ [][ProfileNext]_vars

\* ------------------------------------------------ the attribute filter alone
\* lines 445-463 for any mesh within the bounds (of two primitives, with
\* vertices at 0) and any --only-attributes value: the state is the one main()
\* is in when it reaches line 445 in single-mesh mode
FilterMeshes ==
    MeshesOf({"Triangles", "Lines"}, {0},
             SeqUpTo(AttributeNames, MaxAttributes))
FilterInit ==
    /\ converters = <<>>
    /\ features = [n \in PluginNames |-> {ConvertMeshToFile}]
    /\ mesh \in {<<m>> : m \in FilterMeshes}
    /\ i = 0
    /\ converter = NoConverter
    /\ pc = "filter"
    /\ exitCode = 0
    /\ calls = <<>>
    /\ argInfo = FALSE
    /\ argOutput = TRUE
    /\ argConcatenate = FALSE
    /\ argRemoveDuplicates = FALSE
    /\ argRemoveDuplicatesFuzzy = FALSE
    /\ argOnlyAttributes = NotRead
    /\ argProfile = FALSE
    /\ meshCount = 1
    /\ meshes = <<>>
    /\ warned = FALSE
    /\ stages = <<Stage("openFile", "opened", TRUE), Stage("mesh", 0, TRUE)>>
    /\ profiled = <<>>
    /\ accesses = <<>>
    /\ owners = NoStorage

FilterNext == FilterAttributes

FilterSpec == FilterInit /\ [][FilterNext]_vars

\* ------------------------------- lines 445-541, statement by statement
\* one thing a statement of main() does with `mesh`: reading a part of it,
\* releasing a storage of it, handing it over as an rvalue ("move") or
\* assigning to it (a mesh, or NullOpt)
Access(stage, op, part) == [stage |-> stage, op |-> op, part |-> part]
Accessed(stage, op, part) ==
    accesses' = Append(accesses, Access(stage, op, part))

\* lines 446-448: the option is read and parsed against attributeCount()
FilterParse ==
    /\ pc = "filter"
    /\ \E value \in OnlyAttributesValues :
        /\ argOnlyAttributes' = value
        /\ IF value.kind = "empty"
           THEN /\ pc' = "removeDuplicates"
                /\ UNCHANGED <<exitCode, stages, accesses>>
           ELSE /\ Accessed("filter", "read", "attributeCount")
                /\ IF parseNumberSequence(value, 0,
                                          attributeCount(mesh[1])) = <<>>
                   THEN /\ Return(2)
                        /\ stages' = Append(stages,
                              Stage("filter", value, FALSE))
                   ELSE /\ pc' = "filter.attributeData"
                        /\ UNCHANGED <<exitCode, stages>>
    /\ UNCHANGED <<argInfo, argOutput, argConcatenate, argRemoveDuplicates,
                   argRemoveDuplicatesFuzzy, argProfile, meshCount>>
    /\ UNCHANGED <<chainVars, mesh, meshes, warned, profiled, owners>>

\* lines 454-461 in the order they are evaluated: the loop, the two locals,
\* then the initializers of the braced list from left to right. The same
\* with both releases evaluated before mesh->primitive() comes first.
FilterStatementsReleasingFirst ==
    <<[pc |-> "filter.attributeData", op |-> "read", part |-> "attributeData"],
      [pc |-> "filter.indices", op |-> "read", part |-> "indices"],
      [pc |-> "filter.vertexCount", op |-> "read", part |-> "vertexCount"],
      [pc |-> "filter.releaseIndexData", op |-> "release",
       part |-> "indexData"],
      [pc |-> "filter.releaseVertexData", op |-> "release",
       part |-> "vertexData"],
      [pc |-> "filter.primitive", op |-> "read", part |-> "primitive"]>>
FilterStatements ==
    <<[pc |-> "filter.attributeData", op |-> "read", part |-> "attributeData"],
      [pc |-> "filter.indices", op |-> "read", part |-> "indices"],
      [pc |-> "filter.vertexCount", op |-> "read", part |-> "vertexCount"],
      [pc |-> "filter.primitive", op |-> "read", part |-> "primitive"],
      [pc |-> "filter.releaseIndexData", op |-> "release",
       part |-> "indexData"],
      [pc |-> "filter.releaseVertexData", op |-> "release",
       part |-> "vertexData"]>>

\* one of lines 454-461: a released array is a temporary of the statement
FilterStatement ==
    /\ \E k \in 1..Len(FilterStatements) :
        LET st == FilterStatements[k]
        IN /\ pc = st.pc
           /\ Accessed("filter", st.op, st.part)
           /\ owners' = IF st.op = "release"
                        THEN [owners EXCEPT ![st.part] = {"temporary"}]
                        ELSE owners
           /\ pc' = IF k < Len(FilterStatements)
                    THEN FilterStatements[k + 1].pc
                    ELSE "filter.assign"
    /\ UNCHANGED <<chainVars, argVars, mesh, meshes, exitCode, warned, stages,
                   profiled>>

\* lines 459-462: the MeshData is constructed from the arrays and the locals
\* and assigned to `mesh`
FilterAssign ==
    /\ pc = "filter.assign"
    /\ mesh' = <<filterAttributes(mesh[1],
                    parseNumberSequence(argOnlyAttributes, 0,
                                        attributeCount(mesh[1]))[1])>>
    /\ Accessed("filter", "assign", "mesh")
    /\ owners' = MeshOwns
    /\ stages' = Append(stages, Stage("filter", argOnlyAttributes, TRUE))
    /\ pc' = "removeDuplicates"
    /\ UNCHANGED <<chainVars, argVars, meshes, exitCode, warned, profiled>>

\* lines 466-467, 478-479: the option, then mesh->vertexCount()
DuplicatesRead(stage, requested, next) ==
    /\ pc = stage
    /\ IF requested
       THEN /\ Accessed(stage, "read", "vertexCount")
            /\ pc' = stage \o ".call"
       ELSE /\ pc' = next
            /\ UNCHANGED accesses
    /\ UNCHANGED <<chainVars, argVars, mesh, meshes, exitCode, warned, stages,
                   profiled, owners>>

\* lines 470, 482, the right-hand side: the mesh is handed over as an rvalue
\* and a new one comes back in a temporary; the callee (not part of main())
\* either took the storage over into it or left it where it was. The
\* variable `mesh` keeps its value here until the assignment.
DuplicatesCall(stage) ==
    /\ pc = stage \o ".call"
    /\ Accessed(stage, "move", "mesh")
    /\ \E consumed \in BOOLEAN :
        owners' = IF consumed
                  THEN [indexData |-> {}, vertexData |-> {},
                        result |-> {"temporary"}]
                  ELSE [owners EXCEPT !.result = {"temporary"}]
    /\ pc' = stage \o ".assign"
    /\ UNCHANGED <<chainVars, argVars, mesh, meshes, exitCode, warned, stages,
                   profiled>>

\* lines 470, 482, the assignment
DuplicatesAssign(stage, result, arg) ==
    /\ pc = stage \o ".assign"
    /\ mesh' = <<result>>
    /\ Accessed(stage, "assign", "mesh")
    /\ owners' = MeshOwns
    /\ stages' = Append(stages, Stage(stage, arg, TRUE))
    /\ pc' = stage \o ".verbose"
    /\ UNCHANGED <<chainVars, argVars, meshes, exitCode, warned, profiled>>

\* lines 472-473, 484-485: with --verbose, mesh->vertexCount() is printed
DuplicatesVerbose(stage, next) ==
    /\ pc = stage \o ".verbose"
    /\ \E verbose \in BOOLEAN :
        IF verbose THEN Accessed(stage, "read", "vertexCount")
        ELSE UNCHANGED accesses
    /\ pc' = next
    /\ UNCHANGED <<chainVars, argVars, mesh, meshes, exitCode, warned, stages,
                   profiled, owners>>

RemoveDuplicatesRead ==
    DuplicatesRead("removeDuplicates", argRemoveDuplicates,
                   "removeDuplicatesFuzzy")
RemoveDuplicatesCall == DuplicatesCall("removeDuplicates")
RemoveDuplicatesAssign ==
    DuplicatesAssign("removeDuplicates", removeDuplicates(mesh[1]), <<>>)
RemoveDuplicatesVerbose ==
    DuplicatesVerbose("removeDuplicates", "removeDuplicatesFuzzy")
RemoveDuplicatesFuzzyRead ==
    DuplicatesRead("removeDuplicatesFuzzy", argRemoveDuplicatesFuzzy, "load")
RemoveDuplicatesFuzzyCall == DuplicatesCall("removeDuplicatesFuzzy")
RemoveDuplicatesFuzzyAssign ==
    \E epsilon \in {0, 1} :
        DuplicatesAssign("removeDuplicatesFuzzy",
                         removeDuplicatesFuzzy(mesh[1], epsilon), epsilon)
RemoveDuplicatesFuzzyVerbose ==
    DuplicatesVerbose("removeDuplicatesFuzzy", "load")

\* lines 510-521, 543-546: convertToFile() reads *mesh
ConvertToFileCall ==
    /\ pc = "dispatch"
    /\ savesToFile(i, converter)
    /\ \E ok \in BOOLEAN :
        /\ calls' = Append(calls,
              Call("convertToFile", i, converter, mesh, ok, <<>>))
        /\ pc' = "done"
        /\ exitCode' = IF ok THEN 0 ELSE 5
        /\ ProfileOutput(argProfile /\ ok, "Import took, conversion")
    /\ Accessed("convertToFile", "read", "mesh")
    /\ UNCHANGED <<converters, features, mesh, i, converter, owners>>
    /\ UNCHANGED stageVars

\* what a plugin can return from convert() when the meshes are MeshData
ConvertedMeshes ==
    {<<>>, <<MeshData("Triangles", FALSE, <<>>, <<0>>, <<"Position">>)>>}

\* lines 526-536, the right-hand side: convert() reads *mesh and returns an
\* Optional in a temporary
ConvertCall ==
    /\ pc = "dispatch"
    /\ ~savesToFile(i, converter)
    /\ i < converterCount
    /\ canConvert(converter)
    /\ \E out \in ConvertedMeshes :
        /\ calls' = Append(calls,
              Call("convert", i, converter, mesh, out # <<>>, out))
        /\ owners' = [owners EXCEPT
                        !.result = IF out = <<>> THEN {} ELSE {"temporary"}]
    /\ Accessed("convert", "read", "mesh")
    /\ pc' = "convert.assign"
    /\ UNCHANGED <<converters, features, mesh, i, converter, exitCode,
                   profiled>>
    /\ UNCHANGED stageVars

\* lines 536-541: the assignment destroys the old mesh; NullOpt returns 7
ConvertAssign ==
    /\ pc = "convert.assign"
    /\ LET out == calls[Len(calls)].output
       IN /\ mesh' = convertedMesh(mesh, out)
          /\ IF out = <<>>
             THEN /\ Accessed("convert", "assign", "NullOpt")
                  /\ owners' = NoStorage
                  /\ Return(7)
                  /\ UNCHANGED <<i, converter>>
             ELSE /\ Accessed("convert", "assign", "mesh")
                  /\ owners' = MeshOwns
                  /\ i' = i + 1
                  /\ converter' = NoConverter
                  /\ pc' = "load"
                  /\ UNCHANGED exitCode
    /\ UNCHANGED <<converters, features, calls, profiled>>
    /\ UNCHANGED stageVars

\* lines 445-541 for any triangle mesh of FilterMeshes of one vertex and no
\* indices, with at most one --converter: the state is the one main() is in
\* when it reaches line 445 in single-mesh mode, the imported mesh owning its
\* storage
OwnershipMeshes ==
    {m \in FilterMeshes :
        m.primitive = "Triangles" /\ ~m.indexed /\ Len(m.vertices) = 1}
OwnershipInit ==
    /\ converters \in {<<>>, <<"X">>}
    /\ features = [n \in PluginNames |->
                     IF n = AnySceneConverter THEN {ConvertMeshToFile}
                     ELSE {ConvertMesh}]
    /\ mesh \in {<<m>> : m \in OwnershipMeshes}
    /\ i = 0
    /\ converter = NoConverter
    /\ pc = "filter"
    /\ exitCode = 0
    /\ calls = <<>>
    /\ argInfo = FALSE
    /\ argOutput = TRUE
    /\ argConcatenate = FALSE
    /\ argRemoveDuplicates \in BOOLEAN
    /\ argRemoveDuplicatesFuzzy \in BOOLEAN
    /\ argOnlyAttributes = NotRead
    /\ argProfile = FALSE
    /\ meshCount = 1
    /\ meshes = <<>>
    /\ warned = FALSE
    /\ stages = <<Stage("openFile", "opened", TRUE), Stage("mesh", 0, TRUE)>>
    /\ profiled = <<>>
    /\ accesses = <<>>
    /\ owners = MeshOwns

OwnershipNext ==
    \/ FilterParse
    \/ FilterStatement
    \/ FilterAssign
    \/ RemoveDuplicatesRead
    \/ RemoveDuplicatesCall
    \/ RemoveDuplicatesAssign
    \/ RemoveDuplicatesVerbose
    \/ RemoveDuplicatesFuzzyRead
    \/ RemoveDuplicatesFuzzyCall
    \/ RemoveDuplicatesFuzzyAssign
    \/ RemoveDuplicatesFuzzyVerbose
    \/ LoadConverter
    \/ ConvertCall
    \/ ConvertAssign
    \/ ConvertToFileCall

OwnershipSpec == OwnershipInit /\ [][OwnershipNext]_vars

\* ------------------------------------------ the hierarchy flattening alone
\* lines 405-433 for any scene of up to MaxHierarchy objects: the state is the
\* one main() is in when it reaches line 408 after importing the meshes
\* (mesh k being the triangle mesh of the single vertex k)
FlattenInit ==
    /\ converters = <<>>
    /\ features = [n \in PluginNames |-> {ConvertMeshToFile}]
    /\ mesh = <<>>
    /\ i = 0
    /\ converter = NoConverter
    /\ pc = "scene"
    /\ exitCode = 0
    /\ calls = <<>>
    /\ argInfo = FALSE
    /\ argOutput = TRUE
    /\ argConcatenate = TRUE
    /\ argRemoveDuplicates = FALSE
    /\ argRemoveDuplicatesFuzzy = FALSE
    /\ argOnlyAttributes = NotRead
    /\ argProfile = FALSE
    /\ meshCount \in 1..MaxMeshCount
    /\ meshes = [k \in 1..meshCount |->
                   <<MeshData("Triangles", FALSE, <<>>, <<k - 1>>,
                              <<"Position">>)>>]
    /\ warned = FALSE
    /\ stages = <<Stage("openFile", "opened", TRUE)>>
                \o [k \in 1..meshCount |-> Stage("mesh", k - 1, TRUE)]
    /\ profiled = <<>>
    /\ accesses = <<>>
    /\ owners = NoStorage

FlattenNext ==
    \/ FlattenMeshHierarchyOf(ScenesOf(meshCount, MaxHierarchy))
    \/ Concatenate

FlattenSpec == FlattenInit /\ [][FlattenNext]_vars

\* --------------------------------------------------- the concatenation alone
\* lines 422-433 for any two meshes within the bounds (of two primitives,
\* with one attribute and vertices at 0): the state is the one main() is in when it reaches
\* line 422 after importing two meshes of a file without default scene
ConcatenateMeshes ==
    MeshesOf({"Triangles", "Lines"}, {0}, {<<"Position">>})
ConcatenateInit ==
    /\ converters = <<>>
    /\ features = [n \in PluginNames |-> {ConvertMeshToFile}]
    /\ mesh = <<>>
    /\ i = 0
    /\ converter = NoConverter
    /\ pc = "concatenate"
    /\ exitCode = 0
    /\ calls = <<>>
    /\ argInfo = FALSE
    /\ argOutput = TRUE
    /\ argConcatenate = TRUE
    /\ argRemoveDuplicates = FALSE
    /\ argRemoveDuplicatesFuzzy = FALSE
    /\ argOnlyAttributes = NotRead
    /\ argProfile = FALSE
    /\ meshCount = 2
    /\ meshes \in {<<<<a>>, <<b>>>> : a \in ConcatenateMeshes,
                                      b \in ConcatenateMeshes}
    /\ warned = FALSE
    /\ stages = <<Stage("openFile", "opened", TRUE), Stage("mesh", 0, TRUE),
                  Stage("mesh", 1, TRUE), Stage("defaultScene", <<>>, FALSE)>>
    /\ profiled = <<>>
    /\ accesses = <<>>
    /\ owners = NoStorage

ConcatenateNext == Concatenate

ConcatenateSpec == ConcatenateInit /\ [][ConcatenateNext]_vars

\* ------------------------------------------------------ reading the calls
N == converterCount
Ended == pc \in {"done", "aborted"}
Succeeded == pc = "done" /\ exitCode = 0
Declares(name, f) == f \in features[name]
CallIdx == 1..Len(calls)
\* positions of the convert() and convertToFile() calls
ConversionIdx == {k \in CallIdx : calls[k].op \in {"convert", "convertToFile"}}
ConvertIdx == {k \in CallIdx : calls[k].op = "convert"}
SaveIdx == {k \in CallIdx : calls[k].op = "convertToFile"}
LoadIdx == {k \in CallIdx : calls[k].op = "loadAndInstantiate"}
AllCallsOk == \A k \in CallIdx : calls[k].ok
\* the plugin of the current iteration was instantiated
Loaded == converter # NoConverter
\* the mesh a conversion at hop h is expected to receive
MeshBefore(h) ==
    IF h = 0 THEN <<StageMesh>>
    ELSE LET k == CHOOSE k \in ConvertIdx : calls[k].hop = h - 1
         IN calls[k].output

\* ------------------------------------------------------------------- C1
\* C1: for --converter X --converter Y, X declaring ConvertMesh but not
\* ConvertMeshToFile and Y declaring ConvertMeshToFile, the only conversion
\* calls ever made are one convert() on X at hop 0 with the stage mesh and
\* then one convertToFile() on Y at hop 1 with the mesh X returned; a run in
\* which every call succeeds ends with exit code 0 after exactly these two.
C1_Chain ==
    /\ N = 2
    /\ Declares(converters[1], ConvertMesh)
    /\ ~Declares(converters[1], ConvertMeshToFile)
    /\ Declares(converters[2], ConvertMeshToFile)
C1_TerminalSelection ==
    C1_Chain =>
        /\ Cardinality(ConvertIdx) <= 1
        /\ Cardinality(SaveIdx) <= 1
        /\ \A k \in ConvertIdx :
              /\ calls[k].hop = 0
              /\ calls[k].name = converters[1]
              /\ calls[k].input = <<StageMesh>>
        /\ \A k \in SaveIdx :
              /\ calls[k].hop = 1
              /\ calls[k].name = converters[2]
              /\ \E j \in ConvertIdx :
                    j < k /\ calls[j].ok /\ calls[k].input = calls[j].output
        /\ (Ended /\ AllCallsOk) =>
              (Succeeded /\ Cardinality(ConvertIdx) = 1
                         /\ Cardinality(SaveIdx) = 1)
C1_Witness ==
    /\ C1_Chain
    /\ Succeeded
    /\ \E j \in ConvertIdx, k \in SaveIdx :
          calls[j].output # <<StageMesh>> /\ calls[k].input = calls[j].output

\* ------------------------------------------------------------------- C2
\* C2: when no requested plugin writes the file (no --converter at all, or
\* every requested plugin declares ConvertMesh and the last one does not
\* declare ConvertMeshToFile), a run that ends with success has instantiated
\* AnySceneConverter at hop N and made exactly one convertToFile() call, on
\* it, with the mesh the last requested plugin returned (the stage mesh when
\* N = 0); and a run in which every call succeeds does end with success when
\* AnySceneConverter declares ConvertMeshToFile.
C2_Chain ==
    \/ N = 0
    \/ /\ \A k \in 1..N : Declares(converters[k], ConvertMesh)
       /\ ~Declares(converters[N], ConvertMeshToFile)
C2_DefaultBackendWrites ==
    C2_Chain =>
        /\ \A k \in SaveIdx :
              /\ calls[k].hop = N
              /\ calls[k].name = AnySceneConverter
              /\ calls[k].input = MeshBefore(N)
              /\ \E j \in LoadIdx :
                    /\ j < k /\ calls[j].ok
                    /\ calls[j].hop = N /\ calls[j].name = AnySceneConverter
        /\ Cardinality(SaveIdx) <= 1
        /\ Succeeded => Cardinality(SaveIdx) = 1
        /\ (Ended /\ AllCallsOk /\ Declares(AnySceneConverter, ConvertMeshToFile))
              => Succeeded
C2_Witness ==
    /\ N >= 1
    /\ C2_Chain
    /\ Succeeded
    /\ \E k \in SaveIdx : calls[k].hop = N /\ calls[k].input # <<StageMesh>>

\* ------------------------------------------------------------------- C3
\* C3: whenever the run has ended in an iteration whose plugin was
\* instantiated, does not declare ConvertMesh and was not asked to write the
\* file, main returned 6, no convert() or convertToFile() was called at that
\* hop and nothing was called at a later hop.
C3_CapabilityMismatch ==
    ( /\ Ended
      /\ Loaded
      /\ ~Declares(converter, ConvertMesh)
      /\ ~\E k \in SaveIdx : calls[k].hop = i )
    =>
    ( /\ pc = "done"
      /\ exitCode = 6
      /\ ~\E k \in ConversionIdx : calls[k].hop = i
      /\ ~\E k \in CallIdx : calls[k].hop > i )

\* ------------------------------------------------------------------- C4
\* C4: convertToFile() is called at most once in a run; a run that ended
\* with success has called it exactly once; a successful convertToFile() is
\* the last call of the run and main has returned after it.
C4_WritesExactlyOnce ==
    /\ Cardinality(SaveIdx) <= 1
    /\ Succeeded => Cardinality(SaveIdx) = 1
    /\ \A k \in SaveIdx :
          calls[k].ok => (k = Len(calls) /\ pc = "done" /\ exitCode = 0)
C4_Witness ==
    /\ Succeeded
    /\ N = 2
    /\ \E k \in SaveIdx : calls[k].ok /\ calls[k].hop = 1

\* ------------------------------------------------------------------- C5
\* C5 (as claimed): only hop N, the implicit AnySceneConverter, is ever
\* asked to write the file.
C5_OnlyImplicitHopWrites ==
    \A k \in SaveIdx : calls[k].hop = N
\* C5 (amended): an iteration writes the file exactly when it is the last
\* --converter or the implicit one (i + 1 >= N) and its plugin declares
\* ConvertMeshToFile; a plugin at a hop i < N - 1 is only used through
\* convert().
C5_LastRequestedOrImplicitWrites ==
    /\ \A k \in SaveIdx :
          /\ calls[k].hop + 1 >= N
          /\ Declares(calls[k].name, ConvertMeshToFile)
    /\ \A k \in ConvertIdx :
          ~(calls[k].hop + 1 >= N /\ Declares(calls[k].name, ConvertMeshToFile))
    /\ \A k \in ConversionIdx :
          calls[k].hop + 1 < N => calls[k].op = "convert"
C5_Witness ==
    /\ N = 2
    /\ Succeeded
    /\ \E k \in SaveIdx : calls[k].hop = 1 /\ calls[k].name = converters[2]
    /\ \E k \in ConvertIdx :
          calls[k].hop = 0 /\ Declares(calls[k].name, ConvertMeshToFile)

\* ------------------------------------------------------------------- C6
\* C6: with at least one --converter, convert() is only called on plugins
\* declaring ConvertMesh; main returns 6 exactly when the instantiated plugin
\* of a requested hop lacks ConvertMesh and is not a last --converter
\* declaring ConvertMeshToFile; and when the last --converter declares
\* ConvertMeshToFile, it is the one asked to write the file and
\* AnySceneConverter is never instantiated.
C6_Rejected ==
    /\ Loaded
    /\ i < N
    /\ ~Declares(converter, ConvertMesh)
    /\ ~(i = N - 1 /\ Declares(converter, ConvertMeshToFile))
C6_LastRequestedMayWrite ==
    N >= 1 =>
        /\ \A k \in ConvertIdx : Declares(calls[k].name, ConvertMesh)
        /\ (pc = "done" /\ exitCode = 6) => C6_Rejected
        /\ (Ended /\ C6_Rejected) => (pc = "done" /\ exitCode = 6)
        /\ Declares(converters[N], ConvertMeshToFile) =>
              /\ \A k \in CallIdx : calls[k].hop < N
              /\ \A k \in CallIdx : calls[k].name # AnySceneConverter
              /\ \A k \in ConversionIdx :
                    calls[k].hop = N - 1 =>
                        /\ calls[k].op = "convertToFile"
                        /\ calls[k].name = converters[N]
              /\ (Ended /\ AllCallsOk /\ i = N - 1) => Succeeded
C6_Witness ==
    /\ N = 2
    /\ features[converters[2]] = SceneConverterFeatures
    /\ Succeeded
    /\ \E k \in SaveIdx : calls[k].hop = 1 /\ calls[k].name = converters[2]

\* ------------------------------------------------------------------- C7
\* C7: a run that ended in the iteration of the implicit AnySceneConverter,
\* instantiated but not declaring ConvertMeshToFile, ended with main
\* returning 6.
C7_ImplicitWithoutFileOutput ==
    ( /\ Ended
      /\ Loaded
      /\ i = N
      /\ ~Declares(converter, ConvertMeshToFile) )
    => (pc = "done" /\ exitCode = 6)

\* ------------------------------------------------------------------- C8
\* C8: the calls of a run go through the hops 0, 1, ... in order, each on the
\* plugin the command line names for that hop; a plugin is instantiated only
\* right after the convert() of the previous hop succeeded, a conversion is
\* called only right after its plugin was instantiated; the conversion of hop
\* 0 gets the stage mesh and the conversion of hop h + 1 gets exactly what
\* the convert() of hop h returned, which is also the current mesh.
C8_NameOfHop(h) == IF h = N THEN AnySceneConverter ELSE converters[h + 1]
C8_SequentialHops ==
    /\ \A k \in CallIdx :
          /\ calls[k].hop \in 0..N
          /\ calls[k].name = C8_NameOfHop(calls[k].hop)
    /\ \A j, k \in CallIdx : j < k => calls[j].hop <= calls[k].hop
    /\ \A k \in LoadIdx :
          IF k = 1 THEN calls[k].hop = 0
          ELSE /\ calls[k - 1].op = "convert"
               /\ calls[k - 1].ok
               /\ calls[k - 1].hop + 1 = calls[k].hop
    /\ \A k \in ConversionIdx :
          /\ k > 1
          /\ calls[k - 1].op = "loadAndInstantiate"
          /\ calls[k - 1].ok
          /\ calls[k - 1].hop = calls[k].hop
          /\ calls[k].input =
                IF calls[k].hop = 0 THEN <<StageMesh>> ELSE calls[k - 2].output
    /\ \A k \in ConvertIdx : k = Len(calls) => mesh = calls[k].output
C8_Witness ==
    /\ N = 2
    /\ Succeeded
    /\ Len(calls) = 6
    /\ calls[2].output # calls[2].input
    /\ calls[4].output # calls[4].input
    /\ calls[4].output # <<StageMesh>>
    /\ calls[6].op = "convertToFile" /\ calls[6].name = AnySceneConverter

\* ------------------------------------------------------------------- C9
\* C9: a failed loadAndInstantiate() is the last call of the run: main has
\* returned 2, nothing was called at that hop or a later one besides it, and
\* the conversions of the earlier hops stand: each was made, and the current
\* mesh is still what the last of them returned.
C9_BackendUnavailable ==
    /\ \A k \in LoadIdx :
          ~calls[k].ok =>
              /\ k = Len(calls)
              /\ pc = "done" /\ exitCode = 2
              /\ \A j \in CallIdx \ {k} : calls[j].hop < calls[k].hop
              /\ \A h \in 0..(calls[k].hop - 1) :
                    \E j \in ConvertIdx : calls[j].hop = h /\ calls[j].ok
              /\ mesh = MeshBefore(calls[k].hop)
    /\ (pc = "done" /\ exitCode = 2) =>
          (calls # <<>> /\ calls[Len(calls)].op = "loadAndInstantiate"
                        /\ ~calls[Len(calls)].ok)
C9_Witness ==
    /\ pc = "done" /\ exitCode = 2
    /\ calls[Len(calls)].hop = 1
    /\ mesh # <<StageMesh>>

\* ------------------------------------------------------------------ C10
\* C10: no hop makes more than one convert() / convertToFile() call, and a
\* failed convert() or convertToFile() is the last call of the run, after
\* which main has returned 7, respectively 5.
C10_NoRetry ==
    /\ \A j, k \in ConversionIdx : calls[j].hop = calls[k].hop => j = k
    /\ \A k \in ConversionIdx :
          ~calls[k].ok =>
              /\ k = Len(calls)
              /\ pc = "done"
              /\ exitCode = IF calls[k].op = "convert" THEN 7 ELSE 5
    /\ (pc = "done" /\ exitCode \in {5, 7}) =>
          (calls # <<>> /\ ~calls[Len(calls)].ok)
C10_Witness ==
    /\ pc = "done" /\ exitCode = 7
    /\ calls[Len(calls)].hop = 1
    /\ calls[Len(calls)].op = "convert"

\* ----------------------------------------------------- reading the stages
StageIdx == 1..Len(stages)
\* positions of the steps of one kind
StageOps(op) == {k \in StageIdx : stages[k].op = op}
Ran(op) == StageOps(op) # {}
\* the step of this kind was made and succeeded
Completed(op) == \E k \in StageOps(op) : stages[k].result
\* --only-attributes was read and is not empty
FilterRequested == argOnlyAttributes.kind \in {"garbage", "numbers"}
\* the converter chain has begun
ChainBegun == pc \in {"load", "dispatch"} \/ calls # <<>>

\* ------------------------------------------------------------------ C11
\* C11: each step of a run is followed by a step of the same or a later
\* stage, the stages being hierarchy flattening, mesh transformations,
\* concatenation, attribute filter, removal of duplicates, fuzzy removal of
\* duplicates, and none of them but a transformation is followed by itself; when the converter chain begins every requested stage has been
\* completed; a stage that was not requested is never run.
C11_Rank(op) ==
    CASE op = "flattenMeshHierarchy3D" -> 1
      [] op = "transform3D" -> 2
      [] op = "concatenate" -> 3
      [] op = "filter" -> 4
      [] op = "removeDuplicates" -> 5
      [] op = "removeDuplicatesFuzzy" -> 6
      [] OTHER -> 0
C11_StageOrder ==
    /\ \A k \in 1..(Len(stages) - 1) :
          /\ C11_Rank(stages[k].op) <= C11_Rank(stages[k + 1].op)
          /\ stages[k].op \in {"flattenMeshHierarchy3D", "concatenate",
                               "filter", "removeDuplicates",
                               "removeDuplicatesFuzzy"} =>
                stages[k + 1].op # stages[k].op
    /\ ChainBegun =>
          /\ argOnlyAttributes # NotRead
          /\ argConcatenate => Completed("concatenate")
          /\ (argConcatenate /\ Completed("scene")) =>
                Completed("flattenMeshHierarchy3D")
          /\ FilterRequested => Completed("filter")
          /\ argRemoveDuplicates => Completed("removeDuplicates")
          /\ argRemoveDuplicatesFuzzy => Completed("removeDuplicatesFuzzy")
    /\ ~argConcatenate =>
          /\ ~Ran("flattenMeshHierarchy3D")
          /\ ~Ran("transform3D")
          /\ ~Ran("concatenate")
    /\ ~FilterRequested => ~Ran("filter")
    /\ ~argRemoveDuplicates => ~Ran("removeDuplicates")
    /\ ~argRemoveDuplicatesFuzzy => ~Ran("removeDuplicatesFuzzy")
C11_Witness ==
    /\ Succeeded
    /\ calls # <<>>
    /\ \A op \in {"flattenMeshHierarchy3D", "transform3D", "concatenate",
                  "filter", "removeDuplicates", "removeDuplicatesFuzzy"} :
          Ran(op)

\* ------------------------------------------------------------------ C12
\* C12: with --concatenate-meshes and a file without default scene, no scene
\* is imported, nothing is flattened or transformed, the array given to the
\* concatenation holds the meshes 0 .. meshCount - 1 of the importer in this
\* order (mesh k is the one with the single vertex k), the concatenated mesh
\* has exactly these vertices, and main does not return before having
\* concatenated.
C12_NoScene == \E k \in StageOps("defaultScene") : ~stages[k].result
C12_NoDefaultScene ==
    C12_NoScene =>
        /\ argConcatenate
        /\ ~Ran("scene")
        /\ ~Ran("flattenMeshHierarchy3D")
        /\ ~Ran("transform3D")
        /\ pc = "concatenate" =>
              /\ Len(meshes) = meshCount
              /\ \A k \in 1..meshCount :
                    /\ meshes[k] # <<>>
                    /\ meshes[k][1].vertices = <<k - 1>>
        /\ pc # "concatenate" => Ran("concatenate")
        /\ pc = "filter" => mesh[1].vertices = [k \in 1..meshCount |-> k - 1]
        /\ pc = "done" => Completed("concatenate")
C12_Witness ==
    /\ C12_NoScene
    /\ Succeeded
    /\ meshCount = 2
    /\ mesh[1].vertices = <<0, 1>>

\* ------------------------------------------------------------------ C13
\* C13: with an info option, the only steps are opening the file and
\* printing the info: no mesh is imported or processed, no converter plugin
\* is instantiated or called; an output file given as well is warned about
\* and the run goes on to print the info, returning 0 if that succeeds.
C13_InfoOnly ==
    argInfo =>
        /\ calls = <<>>
        /\ mesh = <<>>
        /\ meshes = <<>>
        /\ \A k \in StageIdx : stages[k].op \in {"openFile", "printInfo"}
        /\ pc \in {"checks", "open", "info", "done"}
        /\ (argOutput /\ pc # "checks") => warned
        /\ pc = "done" =>
              /\ stages # <<>>
              /\ Completed("openFile") => Ran("printInfo")
              /\ exitCode = 0 <=> Completed("printInfo")
C13_Witness ==
    /\ argInfo
    /\ argOutput
    /\ warned
    /\ Succeeded
    /\ Completed("printInfo")

\* ------------------------------------------------------------------ C14
\* C14: an importer->mesh() or importer->scene() call that returns nothing
\* is the last step of the run: main has returned a non-zero code, no mesh
\* was produced, nothing was concatenated, filtered or deduplicated and no
\* call was made on a converter plugin.
C14_AccessorReturnsNothing ==
    \A k \in StageIdx :
        (stages[k].op \in {"mesh", "scene"} /\ ~stages[k].result) =>
            /\ k = Len(stages)
            /\ pc = "done"
            /\ exitCode # 0
            /\ mesh = <<>>
            /\ calls = <<>>
            /\ \A j \in StageIdx :
                  stages[j].op \notin {"concatenate", "filter",
                                       "removeDuplicates",
                                       "removeDuplicatesFuzzy"}
C14_Witness ==
    /\ argConcatenate
    /\ pc = "done"
    /\ exitCode = 1
    /\ Len(stages) = 3
    /\ stages[3] = Stage("mesh", 1, FALSE)

\* ------------------------------------------------------------------ C15
\* C15: filtering a mesh with a list of IDs that are all below its attribute
\* count gives a mesh with as many attributes as IDs, the k-th one being the
\* attribute of the input the k-th ID names.
C15_OrdinalStability ==
    [][(/\ pc = "filter"
        /\ argOnlyAttributes'.kind = "numbers"
        /\ \A j \in 1..Len(argOnlyAttributes'.ids) :
              argOnlyAttributes'.ids[j] < Len(mesh[1].attributes))
       => LET ids == argOnlyAttributes'.ids
          IN /\ pc' = "removeDuplicates"
             /\ Len(mesh'[1].attributes) = Len(ids)
             /\ \A k \in 1..Len(ids) :
                   mesh'[1].attributes[k] = mesh[1].attributes[ids[k] + 1]]_vars
C15_Witness ==
    /\ pc = "removeDuplicates"
    /\ argOnlyAttributes.ids = <<2, 0>>
    /\ mesh[1].attributes = <<"Normal", "Position">>

\* ------------------------------------------------------------------ C16
\* C16: the attribute filter step leaves the primitive, the index buffer
\* (whether there is one, and its indices in order) and the vertex data of
\* the mesh as they are.
C16_FilterFrame ==
    [][pc = "filter" =>
          /\ mesh'[1].primitive = mesh[1].primitive
          /\ mesh'[1].indexed = mesh[1].indexed
          /\ mesh'[1].indices = mesh[1].indices
          /\ mesh'[1].vertices = mesh[1].vertices
          /\ Len(mesh'[1].vertices) = Len(mesh[1].vertices)]_vars
C16_Witness ==
    /\ pc = "removeDuplicates"
    /\ Completed("filter")
    /\ mesh[1].primitive = "Lines"
    /\ mesh[1].indexed
    /\ mesh[1].indices = <<1, 0>>
    /\ Len(mesh[1].attributes) = 1

\* ------------------------------------------------------------------ C17
\* C17: when --only-attributes lists an ID that is not below the attribute
\* count of the mesh, the filter step ends the run with a non-zero exit code
\* and leaves the mesh unfiltered (so no converter plugin is called).
C17_AttributeIndexOutOfRange ==
    [][(/\ pc = "filter"
        /\ \E j \in 1..Len(argOnlyAttributes'.ids) :
              argOnlyAttributes'.ids[j] >= Len(mesh[1].attributes))
       => /\ pc' = "done"
          /\ exitCode' # 0
          /\ mesh' = mesh]_vars

\* ------------------------------------------------------------------ C18
\* C18: the concatenated mesh has the attribute list of the first mesh given
\* to the concatenation; with --concatenate-meshes the filter step comes
\* right after the concatenation and, for IDs below the attribute count of
\* that list, gives the attributes of that list the IDs name, in their order.
C18_SelectionRelativeToFirst ==
    [][/\ (pc = "concatenate" /\ pc' = "filter") =>
             mesh'[1].attributes = meshes[1][1].attributes
       /\ (argConcatenate /\ pc = "filter" /\ stages' # stages
           /\ pc' = "removeDuplicates") =>
             LET ids == argOnlyAttributes'.ids
                 first == mesh[1].attributes
             IN /\ stages[Len(stages)].op = "concatenate"
                /\ (\A j \in 1..Len(ids) : ids[j] < Len(first)) =>
                      mesh'[1].attributes =
                          [j \in 1..Len(ids) |-> first[ids[j] + 1]]]_vars
C18_Witness ==
    /\ argConcatenate
    /\ pc = "removeDuplicates"
    /\ Completed("concatenate")
    /\ argOnlyAttributes.ids = <<1, 0>>
    /\ mesh[1].attributes = <<"Normal", "Position">>
    /\ Len(mesh[1].vertices) = 2

\* ------------------------------------------------------------------ C19
\* C19: concatenating two meshes A and B of the same primitive succeeds and
\* gives a mesh with as many vertices as A and B together; if A or B has an
\* index buffer, the result has one made of the indices of A followed by the
\* indices of B plus the vertex count of A, the indices of a mesh without
\* index buffer being 0 .. vertexCount - 1; every index of the result is
\* below its vertex count.
C19_Indices(m) ==
    IF m.indexed THEN m.indices ELSE [k \in 1..Len(m.vertices) |-> k - 1]
C19_ConcatenationOffsets ==
    [][(pc = "concatenate" /\ Len(meshes) = 2
        /\ meshes[1][1].primitive = meshes[2][1].primitive)
       => LET A == meshes[1][1]
              B == meshes[2][1]
              ixA == C19_Indices(A)
              ixB == C19_Indices(B)
              out == mesh'[1]
          IN /\ pc' = "filter"
             /\ Len(out.vertices) = Len(A.vertices) + Len(B.vertices)
             /\ (A.indexed \/ B.indexed) =>
                   /\ out.indexed
                   /\ Len(out.indices) = Len(ixA) + Len(ixB)
                   /\ \A k \in 1..Len(ixA) : out.indices[k] = ixA[k]
                   /\ \A k \in 1..Len(ixB) :
                         out.indices[Len(ixA) + k] = ixB[k] + Len(A.vertices)
             /\ \A k \in 1..Len(out.indices) :
                   out.indices[k] < Len(out.vertices)]_vars
C19_Witness ==
    /\ pc = "filter"
    /\ Completed("concatenate")
    /\ Len(mesh[1].vertices) = 4
    /\ mesh[1].indexed
    /\ mesh[1].indices = <<0, 1, 3>>

\* ------------------------------------------------------------------ C20
\* C20: when the meshes given to the concatenation are not all of the same
\* primitive, or are strips, loops or fans, the concatenation step aborts
\* the program: no mesh is produced, no call is made on a converter plugin,
\* and no step follows the abort.
C20_Incompatible ==
    \E j, k \in 1..Len(meshes) :
        \/ meshes[j][1].primitive # meshes[k][1].primitive
        \/ meshes[j][1].primitive \in StripLoopFan
C20_IncompatiblePrimitive ==
    [][/\ (pc = "concatenate" /\ C20_Incompatible) =>
             /\ pc' = "aborted"
             /\ mesh' = <<>>
             /\ calls' = <<>>
       /\ pc # "aborted"]_vars
C20_Witness ==
    /\ pc = "aborted"
    /\ Len(meshes) = 2
    /\ meshes[1][1].primitive # meshes[2][1].primitive
    /\ stages[Len(stages)] = Stage("concatenate", 2, FALSE)

\* ------------------------------------------------------------------ C25
\* C25: every concatenation step is made with at least one mesh in the array
\* given to MeshTools::concatenate().
C25_ConcatenationInputNotEmpty ==
    \A k \in StageOps("concatenate") : stages[k].arg >= 1

\* ------------------------------------------------------------------ C24
\* C24: the converter loop ends, by main returning or by an abort: the first
\* plugin instantiated is the one of hop 0, each later one is the one of the
\* hop after the hop of the call before it, no call is made for a hop
\* outside of 0 .. N (so at most N + 1 plugins are instantiated), and every
\* run reaches a state in which main has returned or the program has
\* aborted.
C24_HopsInOrder ==
    /\ i \in 0..N
    /\ Cardinality(LoadIdx) <= N + 1
    /\ \A k \in CallIdx :
          /\ calls[k].hop \in 0..N
          /\ calls[k].op = "loadAndInstantiate" =>
                calls[k].hop = IF k = 1 THEN 0 ELSE calls[k - 1].hop + 1
          /\ calls[k].op # "loadAndInstantiate" =>
                (k > 1 /\ calls[k].hop = calls[k - 1].hop)
C24_ChainTerminates == []C24_HopsInOrder /\ <>Ended
C24_Witness ==
    /\ Ended
    /\ N = MaxConverters
    /\ Cardinality(LoadIdx) = N + 1

\* ------------------------------------------------------------------ C22
\* C22: after the default scene has been imported and flattened, the array
\* given to the concatenation has one mesh per object of the scene that has a
\* mesh, in depth-first order of the hierarchy (children in object order):
\* the k-th one is the mesh of the importer assigned to the k-th such object
\* (the one with the vertex of that number) moved by the sum of the
\* translations from the root down to that object; the transform3D steps
\* are made for the same meshes and transformations in the same order, and
\* the concatenated mesh has exactly these vertices in this order.
C22_Children(sc, p) == {n \in 1..Len(sc) : sc[n].parent = p}
RECURSIVE C22_Subtrees(_, _)
C22_Subtrees(sc, siblings) ==
    IF siblings = {} THEN <<>>
    ELSE LET n == CHOOSE m \in siblings : \A o \in siblings : m <= o
         IN <<n>> \o C22_Subtrees(sc, C22_Children(sc, n))
                 \o C22_Subtrees(sc, siblings \ {n})
RECURSIVE C22_World(_, _)
C22_World(sc, n) ==
    IF n = 0 THEN 0 ELSE C22_World(sc, sc[n].parent) + sc[n].translation
C22_Instances(sc) ==
    LET order == SelectSeq(C22_Subtrees(sc, C22_Children(sc, 0)),
                           LAMBDA n : sc[n].mesh # -1)
    IN [k \in 1..Len(order) |->
           [meshIndex |-> sc[order[k]].mesh,
            worldTransform |-> C22_World(sc, order[k])]]
C22_OnePerInstance ==
    \A s \in StageOps("scene") :
        stages[s].result =>
            LET instances == C22_Instances(stages[s].arg[1])
                count == Len(instances)
                vertexOf(k) == instances[k].meshIndex
                               + instances[k].worldTransform
            IN /\ Len(stages) >= s + 1 + count
               /\ stages[s + 1] = Stage("flattenMeshHierarchy3D", count, TRUE)
               /\ \A k \in 1..count :
                     /\ stages[s + 1 + k].op = "transform3D"
                     /\ stages[s + 1 + k].arg.first = instances[k].meshIndex
                     /\ stages[s + 1 + k].arg.third =
                           instances[k].worldTransform
               /\ Cardinality(StageOps("transform3D")) = count
               /\ pc = "concatenate" =>
                     /\ Len(meshes) = count
                     /\ \A k \in 1..count :
                           meshes[k][1].vertices = <<vertexOf(k)>>
               /\ Ran("concatenate") =>
                     stages[s + 2 + count].arg = count
               /\ pc = "filter" =>
                     mesh[1].vertices = [k \in 1..count |-> vertexOf(k)]
C22_Witness ==
    /\ pc = "filter"
    /\ Completed("scene")
    /\ meshCount = 2
    /\ mesh[1].vertices = <<10, 20, 1>>

C23_StatementBoundaries ==
    {"filter", "removeDuplicates", "removeDuplicatesFuzzy", "load",
     "dispatch", "done", "removeDuplicates.verbose",
     "removeDuplicatesFuzzy.verbose"}
C23_NoReadAfterRelease ==
    /\ \A j \in 1..Len(accesses) : \A k \in (j + 1)..Len(accesses) :
          (accesses[j].op \in {"release", "move"} /\ accesses[k].op = "read")
             => \E a \in (j + 1)..(k - 1) :
                    accesses[a] = Access(accesses[a].stage, "assign", "mesh")
    /\ \A j \in 1..Len(accesses) : \A k \in (j + 1)..Len(accesses) :
          accesses[j].part = "NullOpt" => accesses[k].op # "read"
    /\ \A j \in 1..Len(accesses) : \A k \in (j + 1)..Len(accesses) :
          (accesses[j].stage = "filter" /\ accesses[k].stage = "filter"
           /\ accesses[j].op = "release") => accesses[k].op # "read"
    /\ \A st \in DOMAIN owners : Cardinality(owners[st]) <= 1
    /\ mesh # <<>> =>
          /\ owners.indexData \cup owners.result # {}
          /\ owners.vertexData \cup owners.result # {}
    /\ (mesh # <<>> /\ pc \in C23_StatementBoundaries) => owners = MeshOwns
    /\ mesh = <<>> => owners = NoStorage
C23_Witness ==
    /\ Succeeded
    /\ \E k \in 1..Len(accesses) : accesses[k].op = "release"
    /\ \E k \in 1..Len(accesses) :
          accesses[k] = Access("removeDuplicates", "move", "mesh")
    /\ accesses[Len(accesses) - 1] = Access("convert", "assign", "mesh")
    /\ accesses[Len(accesses)] = Access("convertToFile", "read", "mesh")

====
